---- MODULE Spec2Model ----
(***************************************************************************)
(* Turn analysis of ManarElgamil/listen: the loop of app.py (repeated in   *)
(* voice_ai_agent.py main) that accumulates per-speaker speaking time and  *)
(* detects interruptions between adjacent diarization turns, the report    *)
(* and the two exports, and the copy of the loop in                        *)
(* voice_ai_agent_custom.py analyze_speakers_and_interruptions.            *)
(*                                                                         *)
(* Time stamps are Python floats.  A time is modelled by the integer       *)
(* number of ticks of 2^-8 s it holds (such values are exact binary        *)
(* fractions), and float arithmetic by a binary floating-point format of   *)
(* Precision significand bits with round-half-to-even, the rounding of     *)
(* IEEE-754 doubles scaled down from 53 bits.  round(x, 2) yields a        *)
(* number of hundredths of a second.                                       *)
(***************************************************************************)
EXTENDS Integers, Sequences, FiniteSets, TLC

VARIABLES source, segments, i, speaking_times, interruptions, pc,
          report, json_file, csv_file

vars == <<source, segments, i, speaking_times, interruptions, pc,
          report, json_file, csv_file>>

(* ------------------------------ bounds -------------------------------- *)
MaxTurns == 3
Precision == 3

TicksPerSecond == 2^8
BigTime == 2^Precision
Times == {0, 1, BigTime}
Speakers == {"A", "B"}

(* ------------------------- float arithmetic --------------------------- *)
Abs(x) == IF x < 0 THEN -x ELSE x

\* integer nearest to n/d (d > 0), ties to the even integer
RoundDiv(n, d) ==
    LET q == n \div d
        r == n % d
    IN  IF 2 * r < d THEN q
        ELSE IF 2 * r > d THEN q + 1
        ELSE IF q % 2 = 0 THEN q ELSE q + 1

RECURSIVE Ulp(_)
\* spacing of the floats around x: 1 below 2^Precision, doubling per binade
Ulp(x) == IF Abs(x) < 2^Precision THEN 1 ELSE 2 * Ulp(Abs(x) \div 2)

\* the float nearest to the exact value x
Fl(x) == Ulp(x) * RoundDiv(x, Ulp(x))

FAdd(a, b) == Fl(a + b)
FSub(a, b) == Fl(a - b)

Decimals == 2
\* round(x, 2): hundredths of a second nearest to x ticks, ties to even
Round2(x) == RoundDiv(x * 10^Decimals, TicksPerSecond)

(* ------------------------------ input --------------------------------- *)
Turns == [start : Times, end : Times, speaker : Speakers]

SeqsUpTo(S, n) == UNION {[1..k -> S] : k \in 0..n}

EmptyMap == <<>>
NoReport == <<>>
NoFile == <<>>

(* --------------------------- app.py ----------------------------------- *)
Init ==
    /\ source \in SeqsUpTo(Turns, MaxTurns)
    /\ segments = <<>>
    /\ i = 0
    /\ speaking_times = EmptyMap
    /\ interruptions = <<>>
    /\ pc = "store"
    /\ report = NoReport
    /\ json_file = NoFile
    /\ csv_file = NoFile

\* segments = list(diarization.itertracks(yield_label=True))
StoreSegments ==
    /\ pc = "store"
    /\ segments' = source
    /\ pc' = "loop"
    /\ UNCHANGED <<source, i, speaking_times, interruptions, report,
                   json_file, csv_file>>

\* variants of AccStep: "=" for "+=", "-=" for "+=", no key for a zero duration
AccStep_assign(st, spk, d) ==
    [s \in (DOMAIN st) \cup {spk} |-> IF s = spk THEN d ELSE st[s]]

AccStep_sub(st, spk, d) ==
    IF spk \in DOMAIN st
    THEN [st EXCEPT ![spk] = FSub(@, d)]
    ELSE [s \in (DOMAIN st) \cup {spk} |->
             IF s = spk THEN FSub(0, d) ELSE st[s]]

AccStep_skipzero(st, spk, d) ==
    IF d = 0 THEN st
    ELSE IF spk \in DOMAIN st
    THEN [st EXCEPT ![spk] = FAdd(@, d)]
    ELSE [s \in (DOMAIN st) \cup {spk} |->
             IF s = spk THEN FAdd(0, d) ELSE st[s]]

\* speaking_times[speaker] += d on a defaultdict(float)
AccStep(st, spk, d) ==
    IF spk \in DOMAIN st
    THEN [st EXCEPT ![spk] = FAdd(@, d)]
    ELSE [s \in (DOMAIN st) \cup {spk} |->
             IF s = spk THEN FAdd(0, d) ELSE st[s]]

\* variant of IsInterruption: the speaker test left out
IsInterruption_overlap(prev, cur) == cur.start < prev.end

\* (turn.start < prev_turn.end) and (speaker != prev_speaker)
IsInterruption(prev, cur) ==
    cur.start < prev.end /\ cur.speaker # prev.speaker

\* variant of Event: the two speakers exchanged
Event_swapped(prev, cur) ==
    [time |-> Round2(cur.start),
     interrupter |-> prev.speaker,
     interrupted |-> cur.speaker,
     overlap_duration |-> Round2(FSub(prev.end, cur.start))]

Event(prev, cur) ==
    [time |-> Round2(cur.start),
     interrupter |-> cur.speaker,
     interrupted |-> prev.speaker,
     overlap_duration |-> Round2(FSub(prev.end, cur.start))]

\* variant of Previous: every turn compared with the first one
Previous_first(segs, k) == segs[1]

\* prev_turn, _, prev_speaker = segments[i - 1]   (k is the 0-based i)
Previous(segs, k) == segs[k]

\* variant of Emit: insert(0, ...) for append(...)
Emit_front(ints, e) == <<e>> \o ints

\* interruptions.append({...})
Emit(ints, e) == Append(ints, e)

\* the interruption list after the iteration of 0-based index k
DetectStep(ints, segs, k) ==
    IF k > 0 /\ IsInterruption(Previous(segs, k), segs[k + 1])
    THEN Emit(ints, Event(Previous(segs, k), segs[k + 1]))
    ELSE ints

\* one iteration of "for i in range(len(segments))"
LoopStep ==
    /\ pc = "loop"
    /\ i < Len(segments)
    /\ LET turn == segments[i + 1]
       IN  /\ speaking_times' =
                 AccStep(speaking_times, turn.speaker,
                         FSub(turn.end, turn.start))
           /\ interruptions' = DetectStep(interruptions, segments, i)
    /\ i' = i + 1
    /\ UNCHANGED <<source, segments, pc, report, json_file, csv_file>>

LoopExit ==
    /\ pc = "loop"
    /\ i = Len(segments)
    /\ pc' = "format"
    /\ UNCHANGED <<source, segments, i, speaking_times, interruptions,
                   report, json_file, csv_file>>

BuildReport(st, ints) ==
    [total_speakers |-> Cardinality(DOMAIN st),
     speaking_times |-> [s \in DOMAIN st |-> Round2(st[s])],
     total_interruptions |-> Len(ints),
     interruptions |-> ints]

FormatReport ==
    /\ pc = "format"
    /\ report' = BuildReport(speaking_times, interruptions)
    /\ pc' = "save_json"
    /\ UNCHANGED <<source, segments, i, speaking_times, interruptions,
                   json_file, csv_file>>

\* json.dump(report, f, indent=2)
SaveJson ==
    /\ pc = "save_json"
    /\ json_file' = <<report>>
    /\ pc' = "save_csv"
    /\ UNCHANGED <<source, segments, i, speaking_times, interruptions,
                   report, csv_file>>

Header == <<"time", "interrupter", "interrupted", "overlap_duration">>

CsvRow(e) == <<e.time, e.interrupter, e.interrupted, e.overlap_duration>>

\* variant of SaveCsv: no file when there is no interruption
SaveCsv_noelse ==
    /\ pc = "save_csv"
    /\ csv_file' =
          IF interruptions # <<>>
          THEN <<Header>> \o [k \in 1..Len(interruptions) |->
                                 CsvRow(interruptions[k])]
          ELSE csv_file
    /\ pc' = "done"
    /\ UNCHANGED <<source, segments, i, speaking_times, interruptions,
                   report, json_file>>

\* DataFrame(...).to_csv("interruptions.csv", index=False)
SaveCsv ==
    /\ pc = "save_csv"
    /\ csv_file' =
          IF interruptions # <<>>
          THEN <<Header>> \o [k \in 1..Len(interruptions) |->
                                 CsvRow(interruptions[k])]
          ELSE <<Header>>
    /\ pc' = "done"
    /\ UNCHANGED <<source, segments, i, speaking_times, interruptions,
                   report, json_file>>

RECURSIVE Accumulate(_)
\* speaking_times after the whole loop has run over segs
Accumulate(segs) ==
    IF segs = <<>> THEN EmptyMap
    ELSE LET n == Len(segs)
         IN  AccStep(Accumulate(SubSeq(segs, 1, n - 1)), segs[n].speaker,
                     FSub(segs[n].end, segs[n].start))

RECURSIVE Detect(_, _)
\* interruptions after the first n iterations of the loop over segs
Detect(segs, n) ==
    IF n = 0 THEN <<>>
    ELSE DetectStep(Detect(segs, n - 1), segs, n - 1)

Next ==
    \/ StoreSegments
    \/ LoopStep
    \/ LoopExit
    \/ FormatReport
    \/ SaveJson
    \/ SaveCsv

Spec == Init /\ [][Next]_vars

(* ----------------- voice_ai_agent_custom.py --------------------------- *)
\* what iterating the segmentation yields: ok items are tuples whose first
\* element has a start and an end, the others are skipped
Items == [ok : BOOLEAN, start : Times, end : Times]

RECURSIVE Digits(_)
Digits(k) == IF k < 10 THEN <<k>> ELSE Append(Digits(k \div 10), k % 10)

\* format spec 02d: decimal digits, zero-padded to width 2
Format02d(k) == IF k < 10 THEN <<0, k>> ELSE Digits(k)

\* variant of SpeakerLabel: the same label for every segment
SpeakerLabel_const(k) == <<"SPEAKER_">> \o Format02d(0)

\* f"SPEAKER_{len(segments):02d}"
SpeakerLabel(k) == <<"SPEAKER_">> \o Format02d(k)

InitCustom ==
    /\ source \in SeqsUpTo(Items, MaxTurns)
    /\ segments = <<>>
    /\ i = 0
    /\ speaking_times = EmptyMap
    /\ interruptions = <<>>
    /\ pc = "convert"
    /\ report = NoReport
    /\ json_file = NoFile
    /\ csv_file = NoFile

\* one iteration of "for item in segmentation"
ConvertItem ==
    /\ pc = "convert"
    /\ i < Len(source)
    /\ LET item == source[i + 1]
       IN  segments' =
              IF item.ok
              THEN Append(segments,
                          [start |-> item.start, end |-> item.end,
                           speaker |-> SpeakerLabel(Len(segments))])
              ELSE segments
    /\ i' = i + 1
    /\ UNCHANGED <<source, speaking_times, interruptions, pc, report,
                   json_file, csv_file>>

ConvertExit ==
    /\ pc = "convert"
    /\ i = Len(source)
    /\ pc' = "custom_loop"
    /\ i' = 0
    /\ UNCHANGED <<source, segments, speaking_times, interruptions, report,
                   json_file, csv_file>>

\* one iteration of "for i, segment in enumerate(segments)"
CustomLoopStep ==
    /\ pc = "custom_loop"
    /\ i < Len(segments)
    /\ LET segment == segments[i + 1]
           speaker == segment.speaker
           duration == FSub(segment.end, segment.start)
       IN  /\ speaking_times' = AccStep(speaking_times, speaker, duration)
           /\ interruptions' =
                 IF i > 0 /\ segment.start < segments[i].end
                 THEN LET prev_segment == segments[i]
                          overlap_duration ==
                              FSub(prev_segment.end, segment.start)
                      IN  Append(interruptions,
                                 [time |-> Round2(segment.start),
                                  interrupter |-> speaker,
                                  interrupted |-> prev_segment.speaker,
                                  overlap_duration |->
                                      Round2(overlap_duration)])
                 ELSE interruptions
    /\ i' = i + 1
    /\ UNCHANGED <<source, segments, pc, report, json_file, csv_file>>

\* return speaking_times, interruptions
CustomReturn ==
    /\ pc = "custom_loop"
    /\ i = Len(segments)
    /\ pc' = "format"
    /\ UNCHANGED <<source, segments, i, speaking_times, interruptions,
                   report, json_file, csv_file>>

NextCustom ==
    \/ ConvertItem
    \/ ConvertExit
    \/ CustomLoopStep
    \/ CustomReturn
    \/ FormatReport
    \/ SaveJson
    \/ SaveCsv

SpecCustom == InitCustom /\ [][NextCustom]_vars

(* ============================ properties ============================== *)

\* C1: the iteration for turn i (i >= 1) emits an interruption event for the
\* pair (turn i-1, turn i) if and only if turn[i].start < turn[i-1].end and
\* the two speakers differ; the first turn, a same-speaker overlap and a
\* zero-length previous turn with the same start emit nothing.
C1_InterruptionIff ==
    [][(pc = "loop" /\ i' = i + 1) =>
          LET cur == segments[i + 1]
              qualifies == /\ i >= 1
                           /\ cur.start < segments[i].end
                           /\ cur.speaker # segments[i].speaker
          IN  IF qualifies
              THEN Len(interruptions') = Len(interruptions) + 1
              ELSE interruptions' = interruptions]_vars

C1_Witness ==
    /\ pc = "done"
    /\ Len(segments) = 3
    /\ segments[2].start < segments[1].end
    /\ segments[2].speaker = segments[1].speaker
    /\ segments[3].start < segments[2].end
    /\ segments[3].speaker # segments[2].speaker
    /\ Len(interruptions) = 1

\* C2 as stated: every emitted event has time = round(current.start, 2),
\* interrupter = current.speaker, interrupted = previous.speaker,
\* overlap_duration = round(previous.end - current.start, 2), and the stored
\* overlap_duration is > 0.
C2_OverlapAlwaysPositive ==
    [][(pc = "loop" /\ Len(interruptions') = Len(interruptions) + 1) =>
          LET cur == segments[i + 1]
              prev == segments[i]
              e == interruptions'[Len(interruptions')]
          IN  /\ e.time = Round2(cur.start)
              /\ e.interrupter = cur.speaker
              /\ e.interrupted = prev.speaker
              /\ e.overlap_duration = Round2(FSub(prev.end, cur.start))
              /\ e.overlap_duration > 0]_vars

\* C2 amended: every emitted event has the four fields as stated; the
\* unrounded overlap is > 0 and the stored overlap_duration is >= 0: it is
\* > 0 when the unrounded overlap exceeds 0.005 s and 0 when the unrounded
\* overlap is below 0.005 s.
C2_EventFields ==
    [][(pc = "loop" /\ Len(interruptions') = Len(interruptions) + 1) =>
          LET cur == segments[i + 1]
              prev == segments[i]
              e == interruptions'[Len(interruptions')]
              overlap == FSub(prev.end, cur.start)
          IN  /\ e.time = Round2(cur.start)
              /\ e.interrupter = cur.speaker
              /\ e.interrupted = prev.speaker
              /\ e.overlap_duration = Round2(overlap)
              /\ overlap > 0
              /\ e.overlap_duration >= 0
              /\ (2 * 10^Decimals * overlap > TicksPerSecond
                     => e.overlap_duration > 0)
              /\ (2 * 10^Decimals * overlap < TicksPerSecond
                     => e.overlap_duration = 0)]_vars

C2_Witness ==
    /\ pc = "done"
    /\ \E k \in 1..Len(interruptions) : interruptions[k].overlap_duration = 0
    /\ \E k \in 1..Len(interruptions) : interruptions[k].overlap_duration > 0

\* C3: if any turn of the input has end < start, the analysis aborts: no
\* report is built, no report or interruption file is written, and the
\* negative duration is never added to a speaker total.
C3_MalformedAborts ==
    (\E k \in 1..Len(source) : source[k].end < source[k].start) =>
        /\ report = NoReport
        /\ json_file = NoFile
        /\ csv_file = NoFile
        /\ \A s \in DOMAIN speaking_times : speaking_times[s] >= 0

RECURSIVE ExactTotal(_, _, _)
\* the exact sum of the durations of speaker s in the first n turns
ExactTotal(segs, n, s) ==
    IF n = 0 THEN 0
    ELSE ExactTotal(segs, n - 1, s)
         + (IF segs[n].speaker = s THEN segs[n].end - segs[n].start ELSE 0)

\* no addition or subtraction of the loop over segs is rounded
NoRounding(segs) ==
    \A n \in 1..Len(segs) :
        /\ Fl(segs[n].end - segs[n].start) = segs[n].end - segs[n].start
        /\ Fl(ExactTotal(segs, n, segs[n].speaker))
              = ExactTotal(segs, n, segs[n].speaker)

Permuted(segs, p) == [k \in 1..Len(segs) |-> segs[p[k]]]

\* the permutations of the positions of n turns
Orders == [n \in 0..MaxTurns |-> Permutations(1..n)]

\* C4 as stated: for every permutation of the turns the accumulation loop
\* computes the same speaker keys and the same total per key.
C4_TotalsOrderIndependent ==
    pc = "done" =>
        \A p \in Orders[Len(segments)] :
            Accumulate(Permuted(segments, p)) = speaking_times

\* C4 amended: for every permutation of the turns the accumulation loop
\* computes the same set of speaker keys, and the same total per key
\* whenever no floating-point operation of the loop is rounded in either
\* order.
C4_TotalsOrderIndependentExact ==
    pc = "done" =>
        \A p \in Orders[Len(segments)] :
            LET other == Accumulate(Permuted(segments, p))
            IN  \/ other = speaking_times
                \/ /\ DOMAIN other = DOMAIN speaking_times
                   /\ \/ ~NoRounding(segments)
                      \/ ~NoRounding(Permuted(segments, p))

C4_Witness ==
    /\ pc = "done"
    /\ Len(segments) = 3
    /\ NoRounding(segments)
    /\ \A p \in Orders[3] : NoRounding(Permuted(segments, p))
    /\ segments[1].speaker = segments[2].speaker
    /\ segments[3].speaker # segments[1].speaker
    /\ segments[1].end - segments[1].start > 0
    /\ segments[2].end - segments[2].start
          > segments[1].end - segments[1].start
    /\ segments[3].end - segments[3].start > 0

\* C5: detection is adjacency-only: after i iterations the number of events
\* is the number of adjacent pairs (k-1, k), k <= i, that overlap with
\* different speakers, whatever earlier non-adjacent turns a turn overlaps;
\* n turns yield at most n-1 events.
C5_AdjacencyOnly ==
    /\ Len(interruptions) =
          Cardinality({k \in 2..i :
                          /\ segments[k].start < segments[k - 1].end
                          /\ segments[k].speaker # segments[k - 1].speaker})
    /\ (i >= 1 => Len(interruptions) <= i - 1)
    /\ (i = 0 => Len(interruptions) = 0)

C5_Witness ==
    /\ pc = "done"
    /\ Len(segments) = 3
    /\ segments[3].start < segments[1].end
    /\ segments[3].speaker # segments[1].speaker
    /\ segments[3].start >= segments[2].end
    /\ \A k \in 1..3 : segments[k].start <= segments[k].end
    /\ \A k \in 2..3 : segments[k - 1].start <= segments[k].start
    /\ interruptions = <<>>
\* C6: in the built report total_speakers is the number of distinct
\* speakers of the input (zero-duration speakers included), the keys of
\* speaking_times are exactly those speakers, and total_interruptions is the
\* length of the interruptions sequence.
C6_ReportCounts ==
    pc \in {"save_json", "save_csv", "done"} =>
        LET spk == {source[k].speaker : k \in 1..Len(source)}
        IN  /\ report.total_speakers = Cardinality(spk)
            /\ DOMAIN report.speaking_times = spk
            /\ report.total_interruptions = Len(report.interruptions)
            /\ report.interruptions = interruptions

C6_Witness ==
    /\ pc = "done"
    /\ Len(source) = 3
    /\ \A k \in 1..3 : source[k].speaker = "B" => source[k].end = source[k].start
    /\ \E k \in 1..3 : source[k].speaker = "B"
    /\ \E k \in 1..3 : source[k].speaker = "A"
    /\ report.total_speakers = 2
    /\ report.total_interruptions = 1

\* C7: an empty turn sequence gives a report with total_speakers = 0,
\* total_interruptions = 0, no speaking time and no interruption; a single
\* turn gives no interruption; and when there is no interruption the
\* tabular export is written with the header row only.
C7_EmptyInput ==
    /\ (source = <<>> /\ pc \in {"save_json", "save_csv", "done"}) =>
          /\ report.total_speakers = 0
          /\ report.total_interruptions = 0
          /\ DOMAIN report.speaking_times = {}
          /\ report.interruptions = <<>>
    /\ (source = <<>> /\ pc = "done") => json_file = <<report>>
    /\ Len(source) <= 1 => interruptions = <<>>
    /\ (interruptions = <<>> /\ pc = "done") =>
          csv_file = << <<"time", "interrupter", "interrupted",
                          "overlap_duration">> >>

C7_Witness ==
    /\ pc = "done"
    /\ source = <<>>
    /\ Len(csv_file) = 1
    /\ report.total_speakers = 0

RECURSIVE ExpectedEvents(_, _)
\* the events of the qualifying adjacent pairs among the first n turns, in
\* increasing pair index
ExpectedEvents(segs, n) ==
    IF n <= 1 THEN <<>>
    ELSE LET rest == ExpectedEvents(segs, n - 1)
         IN  IF /\ segs[n].start < segs[n - 1].end
                /\ segs[n].speaker # segs[n - 1].speaker
             THEN Append(rest,
                         [time |-> Round2(segs[n].start),
                          interrupter |-> segs[n].speaker,
                          interrupted |-> segs[n - 1].speaker,
                          overlap_duration |->
                              Round2(FSub(segs[n - 1].end, segs[n].start))])
             ELSE rest

\* C8: after any prefix of the turns the events emitted so far are the
\* events of the qualifying adjacent pairs of the prefix in increasing pair
\* index, a step never changes or removes an emitted event, and for turns
\* sorted by start the event times are non-decreasing.
C8_DetectionOrder ==
    /\ [](interruptions = ExpectedEvents(segments, i))
    /\ [][/\ Len(interruptions') >= Len(interruptions)
          /\ SubSeq(interruptions', 1, Len(interruptions)) = interruptions]_vars
    /\ []((\A k \in 2..Len(segments) :
              segments[k - 1].start <= segments[k].start)
          => \A k \in 2..Len(interruptions) :
                interruptions[k - 1].time <= interruptions[k].time)

C8_Witness ==
    /\ pc = "done"
    /\ Len(interruptions) = 2
    /\ interruptions[1] # interruptions[2]
    /\ \A k \in 2..Len(segments) : segments[k - 1].start <= segments[k].start

\* C9: when every turn has end >= start, an iteration changes only the
\* total of the current turn's speaker, adding end - start to it (an unseen
\* speaker starting from 0), every total is >= 0 and none decreases.
C9_TotalsMonotone ==
    [][(/\ pc = "loop"
        /\ i' = i + 1
        /\ \A k \in 1..Len(segments) : segments[k].end >= segments[k].start)
       => LET cur == segments[i + 1]
              old == IF cur.speaker \in DOMAIN speaking_times
                     THEN speaking_times[cur.speaker] ELSE 0
          IN  /\ DOMAIN speaking_times' =
                    DOMAIN speaking_times \cup {cur.speaker}
              /\ speaking_times'[cur.speaker] =
                    Fl(old + Fl(cur.end - cur.start))
              /\ \A s \in DOMAIN speaking_times' :
                    /\ speaking_times'[s] >= 0
                    /\ s \in DOMAIN speaking_times =>
                          speaking_times'[s] >= speaking_times[s]
                    /\ s # cur.speaker =>
                          /\ s \in DOMAIN speaking_times
                          /\ speaking_times'[s] = speaking_times[s]]_vars

C9_Witness ==
    /\ pc = "done"
    /\ Len(segments) = 3
    /\ \A k \in 1..3 : segments[k].end > segments[k].start
    /\ segments[1].speaker = "A"
    /\ segments[2].speaker = "B"
    /\ segments[3].speaker = "A"
    /\ speaking_times["A"] > segments[1].end - segments[1].start

\* C10: the copy of the loop in analyze_speakers_and_interruptions labels
\* the accepted segments with pairwise distinct speakers, so on the labelled
\* segments it emits the events of the detector of app.py and computes its
\* totals, with one speaking_times key per accepted segment.
C10_CustomEquivalent ==
    /\ \A j, k \in 1..Len(segments) :
          j # k => segments[j].speaker # segments[k].speaker
    /\ pc # "convert" =>
          /\ interruptions = Detect(segments, i)
          /\ speaking_times = Accumulate(SubSeq(segments, 1, i))
          /\ Cardinality(DOMAIN speaking_times) = i
    /\ pc \in {"format", "save_json", "save_csv", "done"} =>
          /\ i = Len(segments)
          /\ Len(segments) =
                Cardinality({k \in 1..Len(source) : source[k].ok})
    /\ pc \in {"save_json", "save_csv", "done"} =>
          report.total_speakers = Len(segments)

C10_Witness ==
    /\ pc = "done"
    /\ Len(source) = 3
    /\ Len(segments) = 2
    /\ ~source[2].ok
    /\ Len(interruptions) = 1
    /\ report.total_speakers = 2
====
